---------------------------- MODULE Spec2Model ----------------------------
(***************************************************************************)
(* Model of vite-plugin-pwa-manifest (src/src/index.ts).                   *)
(*                                                                         *)
(* Strings are sequences of symbols.  A symbol is one character ("/", "|") *)
(* or a run of characters that holds neither of these two.  An optional    *)
(* value (undefined | T) is a sequence of length 0 or 1.                   *)
(* A JavaScript object is a sequence of <<key, value>> pairs with distinct *)
(* keys, in insertion order.                                               *)
(***************************************************************************)
EXTENDS Naturals, Sequences, FiniteSets, TLC

\* ------------------------------------------------------------------ bounds
MaxUrlLen == 2     \* longest start_url / scope / id drawn
MaxSrcLen == 2     \* longest icon src drawn
MaxIcons == 2      \* longest configured icon list drawn
MaxClock == 1      \* last clock instant
MaxCalls == 2      \* writeFileIfChanged calls per run
MaxEmits == 2      \* generateBundle calls per run

\* ------------------------------------------------------------ small helpers
NoneV == <<>>
Some(x) == <<x>>
IsSome(o) == Len(o) = 1
OrElse(o, d) == IF IsSome(o) THEN o[1] ELSE d

SeqsUpTo(S, n) == UNION {[1..k -> S] : k \in 0..n}

RECURSIVE Concat(_)
Concat(ss) == IF ss = <<>> THEN <<>> ELSE Head(ss) \o Concat(Tail(ss))

\* ------------------------------------------------------------- JSON values
Undefined == [t |-> "undefined", v |-> <<>>]
Str(s) == [t |-> "string", v |-> s]
IconArr(l) == [t |-> "icons", v |-> l]
StrOrUndef(o) == IF IsSome(o) THEN Str(o[1]) ELSE Undefined

\* ------------------------------------------------------------ JS objects
Keys(obj) == {obj[i][1] : i \in 1..Len(obj)}
Has(obj, k) == k \in Keys(obj)
Get(obj, k) == IF Has(obj, k)
               THEN obj[CHOOSE i \in 1..Len(obj) : obj[i][1] = k][2]
               ELSE Undefined
\* obj[k] = v : an existing key keeps its place, a new key goes last
Put(obj, k, v) == IF Has(obj, k)
                  THEN [i \in 1..Len(obj) |-> IF obj[i][1] = k THEN <<k, v>> ELSE obj[i]]
                  ELSE Append(obj, <<k, v>>)
\* {...a, ...b}
RECURSIVE Spread(_, _)
Spread(a, b) == IF b = <<>> THEN a
                ELSE Spread(Put(a, Head(b)[1], Head(b)[2]), Tail(b))

\* ---------------------------------------------------------------- helpers
\* NOW_ISO: the clock instant t as an ISO-8601 string
NOW_ISO_AtLoad(t) == <<"T", ToString(0), "Z">>
NOW_ISO(t) == <<"T", ToString(t), "Z">>

ensureLeadingSlashAlways(s) == <<"/">> \o s
ensureLeadingSlash(s) == IF Len(s) > 0 /\ s[1] = "/" THEN s ELSE <<"/">> \o s

\* W/"<sha1 hex of s>": SHA-1 is taken to be injective on the payloads drawn
hashETag(s) == <<"W/", "\"">> \o s \o <<"\"">>

defaultIcons ==
  << [src |-> <<"/", "icons", "/", "icon-192x192.png">>, sizes |-> <<"192x192">>,
      type |-> Some(<<"image", "/", "png">>), purpose |-> Some(<<"any", " ", "maskable">>)],
     [src |-> <<"/", "icons", "/", "icon-512x512.png">>, sizes |-> <<"512x512">>,
      type |-> Some(<<"image", "/", "png">>), purpose |-> Some(<<"any", " ", "maskable">>)] >>

\* `${i.src}|${i.sizes}|${i.purpose ?? ""}`
IconKey(i) == i.src \o <<"|">> \o i.sizes \o <<"|">> \o OrElse(i.purpose, <<>>)

\* list.filter with the `seen` set threaded through
RECURSIVE FilterSeen(_, _)
FilterSeen(list, seen) ==
  IF list = <<>> THEN <<>>
  ELSE IF IconKey(Head(list)) \in seen
       THEN FilterSeen(Tail(list), seen)
       ELSE <<Head(list)>> \o FilterSeen(Tail(list), seen \cup {IconKey(Head(list))})

normalizeIcons(icons) ==
  LET src == OrElse(icons, defaultIcons)
      list == [n \in 1..Len(src) |-> [src[n] EXCEPT !.src = ensureLeadingSlash(src[n].src)]]
  IN  FilterSeen(list, {})


\* ---------------------------------------------------------------- options
\* ManifestOptions with every field left out
DefaultOptions ==
  [outputDir |-> NoneV, filename |-> NoneV,
   name |-> NoneV, short_name |-> NoneV, description |-> NoneV,
   lang |-> NoneV, dir |-> NoneV,
   start_url |-> NoneV, scope |-> NoneV, id |-> NoneV,
   display |-> NoneV, orientation |-> NoneV,
   background_color |-> NoneV, theme_color |-> NoneV,
   categories |-> NoneV, prefer_related_applications |-> NoneV,
   related_applications |-> NoneV, protocol_handlers |-> NoneV,
   icons |-> NoneV, screenshots |-> NoneV,
   extra |-> NoneV, includeBuildMeta |-> NoneV, transform |-> NoneV]

\* options.filename ?? "manifest.json"
filename(opts) == OrElse(opts.filename, <<"manifest.json">>)

\* The user's transform hooks drawn: one that renames the app in development
\* only, one that stamps the document with the time of the call.
Transforms == {"devName", "stamp"}
ApplyTransform(kind, json, mode, t) ==
  CASE kind = "devName" -> IF mode = "development" THEN Put(json, "name", Str(<<"X">>)) ELSE json
    [] kind = "stamp" -> Put(json, "buildTime", Str(NOW_ISO(t)))

\* buildManifest(opts, mode); pkg and vcs are what readPkgVersion() and
\* gitShort() return at the call, t is the clock at the call
BuildBase(opts) ==
  LET theme == OrElse(opts.theme_color, <<"#0a131b">>)
  IN << <<"lang", Str(OrElse(opts.lang, <<"en">>))>>,
        <<"dir", Str(OrElse(opts.dir, <<"ltr">>))>>,
        <<"name", Str(OrElse(opts.name, <<"My App">>))>>,
        <<"short_name", Str(OrElse(opts.short_name, <<"App">>))>>,
        <<"description", StrOrUndef(opts.description)>>,
        <<"start_url", Str(ensureLeadingSlash(OrElse(opts.start_url, <<"/">>)))>>,
        <<"scope", Str(ensureLeadingSlash(OrElse(opts.scope, <<"/">>)))>>,
        <<"id", Str(ensureLeadingSlash(OrElse(opts.id, <<"/">>)))>>,
        <<"display", Str(OrElse(opts.display, <<"standalone">>))>>,
        <<"orientation", StrOrUndef(opts.orientation)>>,
        <<"background_color", Str(OrElse(opts.background_color, theme))>>,
        <<"theme_color", Str(theme)>>,
        <<"categories", StrOrUndef(opts.categories)>>,
        <<"prefer_related_applications", StrOrUndef(opts.prefer_related_applications)>>,
        <<"related_applications", StrOrUndef(opts.related_applications)>>,
        <<"protocol_handlers", StrOrUndef(opts.protocol_handlers)>>,
        <<"icons", IconArr(normalizeIcons(opts.icons))>>,
        <<"screenshots", StrOrUndef(opts.screenshots)>> >>

WithBuildMetaAlways(opts, base, pkg, vcs, t) ==
  Put(Put(Put(base,
    "pkgVersion", StrOrUndef(pkg)),
    "version", StrOrUndef(IF IsSome(vcs) THEN vcs ELSE pkg)),
    "buildTime", Str(NOW_ISO(t)))
WithBuildMeta(opts, base, pkg, vcs, t) ==
  IF opts.includeBuildMeta # Some(FALSE)
  THEN Put(Put(Put(base,
         "pkgVersion", StrOrUndef(pkg)),
         "version", StrOrUndef(IF IsSome(vcs) THEN vcs ELSE pkg)),
         "buildTime", Str(NOW_ISO(t)))
  ELSE base

buildManifest(opts, mode, pkg, vcs, t) ==
  LET base == WithBuildMeta(opts, BuildBase(opts), pkg, vcs, t)
      merged == Spread(base, OrElse(opts.extra, <<>>))
  IN  IF IsSome(opts.transform)
      THEN ApplyTransform(opts.transform[1], merged, mode, t)
      ELSE merged

\* ------------------------------------------------------------- serializer
Quoted(s) == <<"\"">> \o s \o <<"\"">>

RenderIcon(i) ==
  <<"{", "src", ":">> \o Quoted(i.src) \o <<",", "sizes", ":">> \o Quoted(i.sizes)
  \o (IF IsSome(i.type) THEN <<",", "type", ":">> \o Quoted(i.type[1]) ELSE <<>>)
  \o (IF IsSome(i.purpose) THEN <<",", "purpose", ":">> \o Quoted(i.purpose[1]) ELSE <<>>)
  \o <<"}">>

RenderValue(v) ==
  CASE v.t = "string" -> Quoted(v.v)
    [] v.t = "icons" -> <<"[">> \o Concat([n \in 1..Len(v.v) |-> RenderIcon(v.v[n]) \o <<",">>]) \o <<"]">>
    [] OTHER -> <<>>

\* members whose value is undefined are left out
RECURSIVE RenderMembers(_)
RenderMembers(obj) ==
  IF obj = <<>> THEN <<>>
  ELSE (IF Head(obj)[2].t = "undefined" THEN <<>>
        ELSE <<Head(obj)[1], ":">> \o RenderValue(Head(obj)[2]) \o <<",">>)
       \o RenderMembers(Tail(obj))

\* JSON.stringify(json, null, 2) + "\n"
Stringify(json) == <<"{">> \o RenderMembers(json) \o <<"}">> \o <<"\n">>

\* let lastJSON = "{}\n"
Placeholder == <<"{", "}", "\n">>

\* serialize(mode) of the plugin closure; its warning about a missing
\* maskable icon goes to the console and changes no state
serialize(opts, mode, pkg, vcs, t) == Stringify(buildManifest(opts, mode, pkg, vcs, t))


\* ------------------------------------------------------------------ state
VARIABLES
  options,     \* the ManifestOptions handed to generateManifest (never changes)
  pkgVersion,  \* what readPkgVersion() returns (package.json of the cwd)
  vcsVersion,  \* what gitShort() returns (git of the cwd)
  now,         \* the clock NOW_ISO reads
  config,      \* let config: the command of the resolved config, once resolved
  lastJSON,    \* let lastJSON
  emitted,     \* the assets handed to this.emitFile, oldest first
  file,        \* content of resolve(root, outputDir, filename), if the file exists
  dirExists,   \* whether the directory of that file exists
  calls,       \* the writeFileIfChanged calls, oldest first
  response,    \* the dev route's latest response, with the request it answers
  built,       \* the latest result of a direct buildManifest call
  lastBuild    \* history: the clock at the latest buildStart and whether
               \* configResolved ran after it

vars == <<options, pkgVersion, vcsVersion, now, config, lastJSON, emitted,
          file, dirExists, calls, response, built, lastBuild>>

\* -------------------------------------------------- buildManifest, directly
UrlChars == {"/", "a"}
UrlValues == {NoneV} \cup {Some(s) : s \in SeqsUpTo(UrlChars, MaxUrlLen)}
PkgVersions == {NoneV, Some(<<"1.0.0">>)}
VcsVersions == {NoneV, Some(<<"abc1234">>)}
MetaFlags == {NoneV, Some(TRUE), Some(FALSE)}
Extras == {NoneV, Some(<< <<"version", Str(<<"9.9.9">>)>> >>)}
TransformChoices == {NoneV} \cup {Some(k) : k \in Transforms}

\* configurations that vary the three URL-like fields
UrlOptions ==
  {[DefaultOptions EXCEPT !.start_url = u[1], !.scope = u[2], !.id = u[3]] :
     u \in UrlValues \X UrlValues \X UrlValues}
\* configurations that vary build metadata, extra fields and the transform
MetaOptions ==
  {[DefaultOptions EXCEPT !.includeBuildMeta = m[1], !.extra = m[2], !.transform = m[3]] :
     m \in MetaFlags \X Extras \X TransformChoices}

SrcChars == {"/", "|", "a"}
SizesValues == {<<"x">>, <<"|", "x">>}
PurposeValues == {NoneV, Some(<<"maskable">>)}
Icons == {[src |-> s, sizes |-> z, type |-> NoneV, purpose |-> p] :
            s \in SeqsUpTo(SrcChars, MaxSrcLen), z \in SizesValues, p \in PurposeValues}
IconOptions ==
  {[DefaultOptions EXCEPT !.icons = i] :
     i \in {NoneV} \cup {Some(l) : l \in SeqsUpTo(Icons, MaxIcons)}}

Idle ==
  /\ config = NoneV
  /\ lastJSON = Placeholder
  /\ emitted = <<>>
  /\ file = NoneV
  /\ dirExists = FALSE
  /\ calls = <<>>
  /\ response = NoneV
  /\ built = NoneV
  /\ lastBuild = NoneV

InitManifest ==
  /\ options \in UrlOptions \cup MetaOptions
  /\ pkgVersion \in PkgVersions
  /\ vcsVersion \in VcsVersions
  /\ now = 0
  /\ Idle

InitIcons ==
  /\ options \in IconOptions
  /\ pkgVersion = NoneV
  /\ vcsVersion = NoneV
  /\ now = 0
  /\ Idle

\* a call buildManifest(options, mode)
BuildManifest(mode) ==
  /\ built' = Some([mode |-> mode,
                    json |-> buildManifest(options, mode, pkgVersion, vcsVersion, now)])
  /\ UNCHANGED <<options, pkgVersion, vcsVersion, now, config, lastJSON, emitted,
                 file, dirExists, calls, response, lastBuild>>

NextManifest == \E mode \in {"development", "production"} : BuildManifest(mode)

SpecManifest == InitManifest /\ [][NextManifest]_vars
SpecIcons == InitIcons /\ [][NextManifest]_vars


\* ----------------------------------------------- claims on buildManifest
UrlKeys == {"start_url", "scope", "id"}
OptionOf(opts, k) ==
  CASE k = "start_url" -> opts.start_url
    [] k = "scope" -> opts.scope
    [] k = "id" -> opts.id
MetaKeys == {"pkgVersion", "version", "buildTime"}

C8_IdLeftAsSupplied ==
  IsSome(built) =>
    Get(built[1].json, "id") = Str(OrElse(options.id, <<"/">>))

\* the keys the extra map or the transform put into the document themselves
SuppliedByUser(opts, mode, t) ==
  Keys(OrElse(opts.extra, <<>>))
  \cup (IF IsSome(opts.transform)
        THEN Keys(ApplyTransform(opts.transform[1], <<>>, mode, t))
        ELSE {})

\* C7 as stated: with includeBuildMeta false the manifest holds none of
\* pkgVersion, version, buildTime, whatever the rest of the configuration.
C7_NoMetaKeys ==
  (IsSome(built) /\ options.includeBuildMeta = Some(FALSE)) =>
    Keys(built[1].json) \cap MetaKeys = {}

\* C7 amended: with includeBuildMeta false, in either mode, the manifest
\* holds one of pkgVersion, version, buildTime exactly when the extra map or
\* the transform supplies that key; buildManifest adds none of its own.
C7_NoMetaKeysOfItsOwn ==
  (IsSome(built) /\ options.includeBuildMeta = Some(FALSE)) =>
    Keys(built[1].json) \cap MetaKeys
      = SuppliedByUser(options, built[1].mode, now) \cap MetaKeys

\* C7 witness: includeBuildMeta false, nothing supplied by the user, built
\* in production mode with a package version and a git version at hand
C7_Witness ==
  /\ IsSome(built)
  /\ built[1].mode = "production"
  /\ options.includeBuildMeta = Some(FALSE)
  /\ options.extra = NoneV /\ options.transform = NoneV
  /\ IsSome(pkgVersion) /\ IsSome(vcsVersion)
  /\ Keys(built[1].json) \cap MetaKeys = {}

\* (source, size, purpose) of an icon, the source as the manifest carries it
Triple(i) == <<ensureLeadingSlash(i.src), i.sizes, i.purpose>>
IsFirstOccurrence(list, n) == \A m \in 1..(n - 1) : Triple(list[m]) # Triple(list[n])
RECURSIVE FirstOccurrences(_, _)
FirstOccurrences(list, n) ==
  IF n > Len(list) THEN <<>>
  ELSE (IF IsFirstOccurrence(list, n)
        THEN <<[list[n] EXCEPT !.src = ensureLeadingSlash(list[n].src)]>>
        ELSE <<>>)
       \o FirstOccurrences(list, n + 1)

\* C5: the icon list of the manifest holds exactly one entry per distinct
\* (source, size, purpose) triple of the configured list, the first
\* occurrence of each, in the original relative order.
C5_OnePerTriple ==
  (IsSome(built) /\ IsSome(options.icons)) =>
    Get(built[1].json, "icons") = IconArr(FirstOccurrences(options.icons[1], 1))


\* ------------------------------------------------------ writeFileIfChanged
\* A call is suspended at one of its awaits ("read", "mkdir", "write") or
\* settled: "resolved" with result true or false, or "rejected" with the
\* error of the step that failed.  before, readFailed, attempted and wrote
\* are history: the file when the call began, whether its readFile threw,
\* whether its writeFile was called, whether it wrote.
writeFileIfChanged(payload, existing) ==
  [payload |-> payload, pc |-> "read", result |-> NoneV, error |-> "none",
   before |-> existing, readFailed |-> FALSE, attempted |-> FALSE, wrote |-> FALSE]

Settled(c) == c.pc \in {"resolved", "rejected"}

\* existing = await fsp.readFile(filePath, "utf8"), and the comparison.
\* readFile throws when the file is missing, and may throw when it is there
\* (no permission, a directory in its place).
ReadFailureRejects(c, ok) ==
  IF ok /\ IsSome(file)
  THEN IF file[1] = c.payload
       THEN [c EXCEPT !.pc = "resolved", !.result = Some(FALSE)]
       ELSE [c EXCEPT !.pc = "mkdir"]
  ELSE [c EXCEPT !.pc = "rejected", !.error = "read", !.readFailed = TRUE]
ReadEqualNeverReturns(c, ok) ==
  IF ok /\ IsSome(file)
  THEN [c EXCEPT !.pc = "mkdir"]
  ELSE [c EXCEPT !.pc = "mkdir", !.readFailed = TRUE]
AfterRead(c, ok) ==
  IF ok /\ IsSome(file)
  THEN IF file[1] = c.payload
       THEN [c EXCEPT !.pc = "resolved", !.result = Some(FALSE)]
       ELSE [c EXCEPT !.pc = "mkdir"]
  ELSE [c EXCEPT !.pc = "mkdir", !.readFailed = TRUE]

ReadStep(n) ==
  /\ calls[n].pc = "read"
  /\ \E ok \in BOOLEAN : calls' = [calls EXCEPT ![n] = AfterRead(calls[n], ok)]
  /\ UNCHANGED <<options, pkgVersion, vcsVersion, now, config, lastJSON, emitted,
                 file, dirExists, response, built, lastBuild>>

\* await fsp.mkdir(path.dirname(filePath), {recursive: true})
AfterMkdir(c, ok) ==
  IF ok THEN [c EXCEPT !.pc = "write"]
  ELSE [c EXCEPT !.pc = "rejected", !.error = "mkdir"]

MkdirStep(n) ==
  /\ calls[n].pc = "mkdir"
  /\ \E ok \in BOOLEAN :
       /\ calls' = [calls EXCEPT ![n] = AfterMkdir(calls[n], ok)]
       /\ dirExists' = (dirExists \/ ok)
  /\ UNCHANGED <<options, pkgVersion, vcsVersion, now, config, lastJSON, emitted,
                 file, response, built, lastBuild>>

\* await fsp.writeFile(filePath, payload, "utf8"); return true
AfterWrite(c, ok) ==
  IF ok THEN [c EXCEPT !.pc = "resolved", !.result = Some(TRUE), !.attempted = TRUE, !.wrote = TRUE]
  ELSE [c EXCEPT !.pc = "rejected", !.error = "write", !.attempted = TRUE]

WriteStep(n) ==
  /\ calls[n].pc = "write"
  /\ \E ok \in BOOLEAN :
       /\ calls' = [calls EXCEPT ![n] = AfterWrite(calls[n], ok)]
       /\ file' = IF ok THEN Some(calls[n].payload) ELSE file
  /\ UNCHANGED <<options, pkgVersion, vcsVersion, now, config, lastJSON, emitted,
                 dirExists, response, built, lastBuild>>

\* one await of one pending call completes
FileStep == \E n \in 1..Len(calls) : ReadStep(n) \/ MkdirStep(n) \/ WriteStep(n)

\* ---------------------------------------- writeFileIfChanged, called in turn
SamplePayloads ==
  {serialize(DefaultOptions, "production", NoneV, NoneV, t) : t \in 0..MaxClock}

InitWrite ==
  /\ options = DefaultOptions
  /\ pkgVersion = NoneV
  /\ vcsVersion = NoneV
  /\ now = 0
  /\ config = NoneV
  /\ lastJSON = Placeholder
  /\ emitted = <<>>
  /\ file \in {NoneV} \cup {Some(p) : p \in SamplePayloads}
  /\ dirExists \in BOOLEAN
  /\ IsSome(file) => dirExists
  /\ calls = <<>>
  /\ response = NoneV
  /\ built = NoneV
  /\ lastBuild = NoneV

\* a caller awaits each call before it makes the next
CallWrite(payload) ==
  /\ Len(calls) < MaxCalls
  /\ \A n \in 1..Len(calls) : Settled(calls[n])
  /\ calls' = Append(calls, writeFileIfChanged(payload, file))
  /\ UNCHANGED <<options, pkgVersion, vcsVersion, now, config, lastJSON, emitted,
                 file, dirExists, response, built, lastBuild>>

NextWrite ==
  \/ \E payload \in SamplePayloads : CallWrite(payload)
  \/ FileStep

SpecWrite == InitWrite /\ [][NextWrite]_vars


\* ------------------------------------------- claims on writeFileIfChanged
\* calls n and n+1 wrote the same payload in turn and every filesystem
\* operation of theirs succeeded, but for a readFile of a missing file
InTurnSamePayload(n) ==
  /\ n + 1 <= Len(calls)
  /\ Settled(calls[n]) /\ Settled(calls[n + 1])
  /\ calls[n].payload = calls[n + 1].payload
  /\ \A m \in {n, n + 1} :
       /\ calls[m].error = "none"
       /\ calls[m].readFailed => calls[m].before = NoneV

C4_ReadFailureIgnoredWriteFailureRaised ==
  \A n \in 1..Len(calls) :
    LET c == calls[n]
    IN  /\ c.readFailed =>
             /\ c.pc # "read"
             /\ c.result # Some(FALSE)
             /\ c.pc = "rejected" => c.error \in {"mkdir", "write"}
             /\ (c.pc = "write" \/ c.attempted) => dirExists
             /\ (Settled(c) /\ c.error # "mkdir") => c.attempted
        /\ (c.attempted /\ ~c.wrote) => (c.pc = "rejected" /\ c.error = "write")
        /\ c.pc = "resolved" => (c.result = Some(TRUE)) = c.wrote

\* C4 witness: the readFile of a missing file threw, the directory was
\* made, the write was tried, failed, and the call was rejected
C4_Witness ==
  \E n \in 1..Len(calls) :
    /\ calls[n].before = NoneV /\ calls[n].readFailed
    /\ dirExists
    /\ calls[n].attempted /\ ~calls[n].wrote
    /\ calls[n].pc = "rejected" /\ calls[n].error = "write"


\* ----------------------------------------------------------------- plugin
\* if (options.outputDir): a non-empty string
Truthy(o) == IsSome(o) /\ o[1] # <<>>

\* this.emitFile({type: "asset", fileName, source})
emitFile(assets, fileName, source) ==
  Append(assets, [type |-> "asset", fileName |-> fileName, source |-> source])

\* configResolved(c), c.command being "serve" or "build"
ConfigResolved(command) ==
  /\ config' = Some(command)
  /\ lastJSON' = serialize(options,
                           IF command = "serve" THEN "development" ELSE "production",
                           pkgVersion, vcsVersion, now)
  /\ lastBuild' = IF IsSome(lastBuild)
                  THEN Some([lastBuild[1] EXCEPT !.stale = TRUE])
                  ELSE lastBuild
  /\ UNCHANGED <<options, pkgVersion, vcsVersion, now, emitted, file, dirExists,
                 calls, response, built>>

\* buildStart(): the mirror write is started and not awaited
BuildStartKeepsLastJSON ==
  /\ Truthy(options.outputDir) => Len(calls) < MaxCalls
  /\ lastJSON' = lastJSON
  /\ calls' = IF Truthy(options.outputDir)
              THEN Append(calls, writeFileIfChanged(lastJSON', file))
              ELSE calls
  /\ lastBuild' = Some([at |-> now, stale |-> FALSE])
  /\ UNCHANGED <<options, pkgVersion, vcsVersion, now, config, emitted, file,
                 dirExists, response, built>>
BuildStart ==
  /\ Truthy(options.outputDir) => Len(calls) < MaxCalls
  /\ lastJSON' = serialize(options, "production", pkgVersion, vcsVersion, now)
  /\ calls' = IF Truthy(options.outputDir)
              THEN Append(calls, writeFileIfChanged(lastJSON', file))
              ELSE calls
  /\ lastBuild' = Some([at |-> now, stale |-> FALSE])
  /\ UNCHANGED <<options, pkgVersion, vcsVersion, now, config, emitted, file,
                 dirExists, response, built>>

\* generateBundle()
GenerateBundle ==
  /\ Len(emitted) < MaxEmits
  /\ emitted' = emitFile(emitted, filename(options), lastJSON)
  /\ UNCHANGED <<options, pkgVersion, vcsVersion, now, config, lastJSON, file,
                 dirExists, calls, response, built, lastBuild>>

\* the middleware's answer to a request carrying If-None-Match inm
respondWithBody(inm, payload, etag) ==
  [statusCode |-> IF inm = Some(etag) THEN 304 ELSE 200,
   body |-> payload,
   headers |-> [ContentType |-> "application/manifest+json; charset=utf-8",
                CacheControl |-> "no-store, no-cache, must-revalidate, max-age=0",
                Pragma |-> "no-cache", Expires |-> "0", ETag |-> etag]]
respond(inm, payload, etag) ==
  [statusCode |-> IF inm = Some(etag) THEN 304 ELSE 200,
   body |-> IF inm = Some(etag) THEN <<>> ELSE payload,
   headers |-> [ContentType |-> "application/manifest+json; charset=utf-8",
                CacheControl |-> "no-store, no-cache, must-revalidate, max-age=0",
                Pragma |-> "no-cache", Expires |-> "0", ETag |-> etag]]

\* The If-None-Match a client may send: none, a tag that was never current,
\* or the ETag of the response before.
RequestTags ==
  {NoneV, Some(hashETag(Placeholder))}
  \cup (IF IsSome(response) THEN {Some(response[1].res.headers.ETag)} ELSE {})

\* a request to the dev route; req and at are history: the request's
\* If-None-Match and the clock at the request
DevRequest(inm) ==
  /\ LET payload == serialize(options, "development", pkgVersion, vcsVersion, now)
         etag == hashETag(payload)
     IN  response' = Some([res |-> respond(inm, payload, etag), req |-> inm, at |-> now])
  /\ UNCHANGED <<options, pkgVersion, vcsVersion, now, config, lastJSON, emitted,
                 file, dirExists, calls, built, lastBuild>>

\* the clock advances
Tick ==
  /\ now < MaxClock
  /\ now' = now + 1
  /\ UNCHANGED <<options, pkgVersion, vcsVersion, config, lastJSON, emitted,
                 file, dirExists, calls, response, built, lastBuild>>

\* ------------------------------------------- the hooks and the dev route
\* No mirror is configured; the host may call the hooks in any order.
HookOptions ==
  {[DefaultOptions EXCEPT !.includeBuildMeta = o[1], !.transform = o[2]] :
     o \in {NoneV, Some(FALSE)} \X {NoneV, Some("devName")}}

Init ==
  /\ options \in HookOptions
  /\ pkgVersion = Some(<<"1.0.0">>)
  /\ vcsVersion = NoneV
  /\ now = 0
  /\ Idle

Next ==
  \/ \E command \in {"serve", "build"} : ConfigResolved(command)
  \/ BuildStart
  \/ GenerateBundle
  \/ \E inm \in RequestTags : DevRequest(inm)
  \/ Tick

Spec == Init /\ [][Next]_vars

\* ------------------------------------------------- build passes, mirrored
OutputDirs == {NoneV, Some(<<>>), Some(<<"public">>)}
MirrorOptions ==
  {[DefaultOptions EXCEPT !.outputDir = o[1], !.includeBuildMeta = o[2]] :
     o \in OutputDirs \X {NoneV, Some(FALSE)}}

InitMirror ==
  /\ options \in MirrorOptions
  /\ pkgVersion = Some(<<"1.0.0">>)
  /\ vcsVersion = NoneV
  /\ now = 0
  /\ Idle

NextMirror ==
  \/ BuildStart
  \/ GenerateBundle
  \/ FileStep
  \/ Tick

SpecMirror == InitMirror /\ [][NextMirror]_vars

\* ------------------------------------------------------ the dev route alone
InitDev ==
  /\ options \in MetaOptions
  /\ pkgVersion \in PkgVersions
  /\ vcsVersion \in VcsVersions
  /\ now = 0
  /\ Idle

NextDev ==
  \/ \E inm \in RequestTags : DevRequest(inm)
  \/ Tick

SpecDev == InitDev /\ [][NextDev]_vars


\* ------------------------------------------------ claims on the dev route
\* C1: a request whose If-None-Match equals the ETag of the payload
\* serialized for that very request is answered 304 with an empty body; any
\* other request is answered 200 with that payload as body and, as ETag, the
\* fingerprint of the body.
C1_ConditionalGet ==
  IsSome(response) =>
    LET r == response[1]
        fresh == serialize(options, "development", pkgVersion, vcsVersion, r.at)
    IN  /\ r.req = Some(hashETag(fresh)) =>
             (r.res.statusCode = 304 /\ r.res.body = <<>>)
        /\ r.req # Some(hashETag(fresh)) =>
             /\ r.res.statusCode = 200
             /\ r.res.body = fresh
             /\ r.res.headers.ETag = hashETag(r.res.body)

\* C1 witness: a request at instant 1 carrying the current ETag, answered
\* 304 without a body
C1_Witness ==
  /\ IsSome(response)
  /\ response[1].at = 1
  /\ response[1].req = Some(response[1].res.headers.ETag)
  /\ response[1].res.statusCode = 304
  /\ response[1].res.body = <<>>

\* the request answered in this step replays the ETag of the 200 before it
ReplaysETag ==
  /\ IsSome(response) /\ response[1].res.statusCode = 200
  /\ response' # response
  /\ response'[1].req = Some(response[1].res.headers.ETag)

\* includeBuildMeta false, and no transform or one that reads no clock
TimeIndependent(opts) ==
  /\ opts.includeBuildMeta = Some(FALSE)
  /\ opts.transform \in {NoneV, Some("devName")}

\* C10: a request that replays the ETag of the 200 response before it is
\* answered 304 when the payload is time-independent; with build metadata
\* enabled and the two requests at different clock instants the two ETags
\* differ and the answer is 200.
C10_ReplayedETag ==
  [][ReplaysETag =>
       /\ TimeIndependent(options) => response'[1].res.statusCode = 304
       /\ (options.includeBuildMeta # Some(FALSE) /\ response'[1].at # response[1].at) =>
            /\ response'[1].res.statusCode = 200
            /\ response'[1].res.headers.ETag # response[1].res.headers.ETag]_vars

\* C10 witness: build metadata enabled, a request at instant 1 that carries
\* the ETag of instant 0 and is answered 200
C10_Witness ==
  /\ IsSome(response)
  /\ options.includeBuildMeta # Some(FALSE)
  /\ response[1].at = 1
  /\ response[1].req =
       Some(hashETag(serialize(options, "development", pkgVersion, vcsVersion, 0)))
  /\ response[1].res.statusCode = 200

\* --------------------------------------------------- claims on the hooks
\* this step emits exactly one asset, under the configured file name, whose
\* source is the production payload of instant t; not the placeholder, and
\* not a development payload where the two modes differ
EmitsBuildOf(t) ==
  /\ Len(emitted') = Len(emitted) + 1
  /\ SubSeq(emitted', 1, Len(emitted)) = emitted
  /\ LET a == emitted'[Len(emitted')]
     IN  /\ a.type = "asset"
         /\ a.fileName = filename(options)
         /\ a.source = serialize(options, "production", pkgVersion, vcsVersion, t)
         /\ a.source # Placeholder
         /\ options.transform = Some("devName") =>
              \A d \in 0..MaxClock :
                a.source # serialize(options, "development", pkgVersion, vcsVersion, d)

\* C2 as stated: whatever the order of the hooks, a generateBundle that a
\* buildStart precedes emits exactly one asset, the production payload of
\* the latest buildStart.
C2_EmitsLatestBuildStart ==
  [][(emitted' # emitted /\ IsSome(lastBuild)) => EmitsBuildOf(lastBuild[1].at)]_vars

\* C2 amended: a generateBundle that a buildStart precedes, with no
\* configResolved between the latest buildStart and it, emits exactly one
\* asset, the production payload of that buildStart; dev-route requests in
\* between change nothing.
C2_EmitsLatestBuildStartUnlessReconfigured ==
  [][(emitted' # emitted /\ IsSome(lastBuild) /\ ~lastBuild[1].stale)
       => EmitsBuildOf(lastBuild[1].at)]_vars

\* C2 witness: resolved for serve, the dev route answered at instant 1,
\* buildStart ran at instant 1, and the asset is the production payload of
\* instant 1
C2_Witness ==
  /\ config = Some("serve")
  /\ options.transform = Some("devName") /\ options.includeBuildMeta = NoneV
  /\ IsSome(response) /\ response[1].at = 1
  /\ IsSome(lastBuild) /\ lastBuild[1].at = 1 /\ ~lastBuild[1].stale
  /\ Len(emitted) > 0
  /\ emitted[Len(emitted)].source =
       serialize(options, "production", pkgVersion, vcsVersion, 1)

\* ---------------------------------------------------- claims on the mirror
\* every buildStart was followed by its generateBundle
BuildPasses ==
  /\ Len(emitted) >= 1
  /\ Len(emitted) = Len(calls)
  /\ \A n \in 1..Len(calls) : emitted[n].source = calls[n].payload

\* C9: with outputDir falsy no mirror write is started; with outputDir
\* truthy, once every mirror write of a run of build passes has completed
\* without error, the mirrored file holds the payload the latest pass emitted.
C9_MirrorHoldsLatestArtifact ==
  /\ ~Truthy(options.outputDir) => calls = <<>>
  /\ (Truthy(options.outputDir) /\ BuildPasses
      /\ \A n \in 1..Len(calls) : calls[n].pc = "resolved")
       => file = Some(emitted[Len(emitted)].source)

=============================================================================
